---- MODULE Spec2Model ----
(***************************************************************************)
(* Model of app.py: the plan-generation endpoint with its remote/local     *)
(* fallback chain, the dependency normalisation of the write and read      *)
(* paths, and the two document collections (goals, tasks).                 *)
(*                                                                         *)
(* Python str values are TLA+ strings; a character is a string of length   *)
(* one, obtained with SubSeq(s, i, i).                                      *)
(***************************************************************************)
EXTENDS Integers, Sequences, FiniteSets, TLC

VARIABLES
    goal_in,      \* generator specification: the goal text
    plan_out,     \* generator specification: the plan returned for it
    lpc,          \* generator specification: "input", "done" ("off" elsewhere)
    deps_in,      \* normalisation specification: a task's dependencies value
    deps_stored,  \* ... as stored by the write path
    deps_out,     \* ... as returned by the read path
    dpc,          \* normalisation specification: "input", "stored", "read"
    client,       \* the Groq client handle: "Groq", or "None" when its set-up failed
    reqs,         \* the POST /api/generate-plan requests, by request
    goals,        \* the goals collection: a set of documents
    tasks_coll,   \* the tasks collection: for each goal_id, the documents
                  \* inserted with it, in insertion order
    now,          \* the wall clock read by datetime.utcnow()
    last_get,     \* the response of a GET /api/get-all-goals that was the last step
    bodies,       \* the request bodies the clients of this run send
    completions   \* the parsed completions the remote service of this run returns

lvars == <<goal_in, plan_out, lpc>>
dvars == <<deps_in, deps_stored, deps_out, dpc>>
svars == <<client, reqs, goals, tasks_coll, now, last_get, bodies, completions>>
vars == <<goal_in, plan_out, lpc, deps_in, deps_stored, deps_out, dpc,
          client, reqs, goals, tasks_coll, now, last_get, bodies, completions>>

(***************************************************************************)
(* Bounds                                                                  *)
(***************************************************************************)
\* number of fragments a goal text of the generator specification is built from
MaxFragments == 4
\* number of fragments a stored dependencies text is built from
MaxDepFragments == 4
\* length of a dependencies list
MaxDepList == 2
\* number of POST requests
MaxRequests == 2

(***************************************************************************)
(* Python str operations                                                   *)
(***************************************************************************)
CharAt(s, i) == SubSeq(s, i, i)

\* the Python slice s[i-1:j] (1-based, inclusive, clamped to the string)
Slice(s, i, j) == SubSeq(s, i, IF j > Len(s) THEN Len(s) ELSE j)

UpperCase == "ABCDEFGHIJKLMNOPQRSTUVWXYZ"
LowerCase == "abcdefghijklmnopqrstuvwxyz"

\* str.lower() on one character (ASCII letters)
LowerChar(c) ==
    IF \E i \in 1..26 : CharAt(UpperCase, i) = c
    THEN LET i == CHOOSE k \in 1..26 : CharAt(UpperCase, k) = c
         IN CharAt(LowerCase, i)
    ELSE c

RECURSIVE lower(_)
lower(s) ==
    IF s = "" THEN ""
    ELSE LowerChar(CharAt(s, 1)) \o lower(SubSeq(s, 2, Len(s)))

\* the Python expression  w in s  for two str values
StrContains(w, s) ==
    \E i \in 1..(Len(s) - Len(w) + 1) : SubSeq(s, i, i + Len(w) - 1) = w

IsDigit(c) == c \in {"0", "1", "2", "3", "4", "5", "6", "7", "8", "9"}
IsSpace(c) == c \in {" ", "\t", "\n", "\r", "\f"}

AllDigits(s, i, j) == \A k \in i..j : IsDigit(CharAt(s, k))
AllSpaces(s, i, j) == \A k \in i..j : IsSpace(CharAt(s, k))

\* the ends j of group 1 for which (\d+)\s*hour matches with its start at i
HourGroupEnds(s, i) ==
    { j \in i..Len(s) :
        /\ AllDigits(s, i, j)
        /\ \E k \in j..Len(s) :
              /\ AllSpaces(s, j + 1, k)
              /\ Slice(s, k + 1, k + 4) = "hour" }

HourMatchAt(s, i) == HourGroupEnds(s, i) # {}

\* sensitivity variant: the last match in the text instead of the first
re_search_hour_last(s) ==
    IF \E i \in 1..Len(s) : HourMatchAt(s, i)
    THEN LET i == CHOOSE k \in 1..Len(s) :
                      HourMatchAt(s, k) /\ \A m \in (k + 1)..Len(s) : ~HourMatchAt(s, m)
             j == CHOOSE e \in HourGroupEnds(s, i) :
                      \A f \in HourGroupEnds(s, i) : f <= e
         IN [found |-> TRUE, start |-> i, group1 |-> SubSeq(s, i, j)]
    ELSE [found |-> FALSE, start |-> 0, group1 |-> ""]

\* re.search(r"(\d+)\s*hour", s): the leftmost start with a match, group 1
\* greedy; [found |-> FALSE] stands for None
re_search_hour(s) ==
    IF \E i \in 1..Len(s) : HourMatchAt(s, i)
    THEN LET i == CHOOSE k \in 1..Len(s) :
                      HourMatchAt(s, k) /\ \A m \in 1..(k - 1) : ~HourMatchAt(s, m)
             j == CHOOSE e \in HourGroupEnds(s, i) :
                      \A f \in HourGroupEnds(s, i) : f <= e
         IN [found |-> TRUE, start |-> i, group1 |-> SubSeq(s, i, j)]
    ELSE [found |-> FALSE, start |-> 0, group1 |-> ""]

(***************************************************************************)
(* Python values.  A value is a record with a type tag t and one payload   *)
(* field per type (the others hold a default), so that two values of any   *)
(* types can be compared: n for bool (0/1) and int, s for str (and the     *)
(* literal of a float), l for list (a sequence of values) and d for dict   *)
(* (a sequence of [k, v] items in insertion order).                        *)
(***************************************************************************)
PNone == [t |-> "none", n |-> 0, s |-> "", l |-> <<>>, d |-> <<>>]
PBool(b) == [t |-> "bool", n |-> IF b THEN 1 ELSE 0, s |-> "", l |-> <<>>, d |-> <<>>]
PInt(n) == [t |-> "int", n |-> n, s |-> "", l |-> <<>>, d |-> <<>>]
PFloat(lit) == [t |-> "float", n |-> 0, s |-> lit, l |-> <<>>, d |-> <<>>]
PStr(s) == [t |-> "str", n |-> 0, s |-> s, l |-> <<>>, d |-> <<>>]
PList(l) == [t |-> "list", n |-> 0, s |-> "", l |-> l, d |-> <<>>]
PDict(d) == [t |-> "dict", n |-> 0, s |-> "", l |-> <<>>, d |-> d]

\* dict lookup; DictHas is  k in d,  DictGet is  d.get(k)
DictHas(v, k) == \E i \in 1..Len(v.d) : v.d[i].k = k
DictGet(v, k) ==
    IF DictHas(v, k)
    THEN v.d[CHOOSE i \in 1..Len(v.d) : v.d[i].k = k].v
    ELSE PNone

\* d[k] = x on the item sequence of a dict: an existing key keeps its place
DictSet(d, k, x) ==
    IF \E i \in 1..Len(d) : d[i].k = k
    THEN [i \in 1..Len(d) |-> IF d[i].k = k THEN [k |-> k, v |-> x] ELSE d[i]]
    ELSE Append(d, [k |-> k, v |-> x])

\* ", ".join(l) for a list of str values
RECURSIVE JoinStrs(_)
JoinStrs(l) ==
    IF Len(l) = 0 THEN ""
    ELSE IF Len(l) = 1 THEN l[1].s
    ELSE l[1].s \o ", " \o JoinStrs(Tail(l))

(***************************************************************************)
(* json.dumps (default separators)                                         *)
(***************************************************************************)
DigitChars == "0123456789"

RECURSIVE NatToStr(_)
NatToStr(n) ==
    IF n < 10 THEN CharAt(DigitChars, n + 1)
    ELSE NatToStr(n \div 10) \o CharAt(DigitChars, (n % 10) + 1)

IntToStr(n) == IF n < 0 THEN "-" \o NatToStr(-n) ELSE NatToStr(n)

EscapeChar(c) ==
    IF c = "\"" THEN "\\\""
    ELSE IF c = "\\" THEN "\\\\"
    ELSE IF c = "\n" THEN "\\n"
    ELSE IF c = "\r" THEN "\\r"
    ELSE IF c = "\t" THEN "\\t"
    ELSE IF c = "\f" THEN "\\f"
    ELSE c

RECURSIVE EscapeStr(_)
EscapeStr(s) ==
    IF s = "" THEN ""
    ELSE EscapeChar(CharAt(s, 1)) \o EscapeStr(SubSeq(s, 2, Len(s)))

RECURSIVE json_dumps(_)
RECURSIVE DumpItems(_)
RECURSIVE DumpPairs(_)

json_dumps(v) ==
    IF v.t = "none" THEN "null"
    ELSE IF v.t = "bool" THEN (IF v.n = 1 THEN "true" ELSE "false")
    ELSE IF v.t = "int" THEN IntToStr(v.n)
    ELSE IF v.t = "float" THEN v.s
    ELSE IF v.t = "str" THEN "\"" \o EscapeStr(v.s) \o "\""
    ELSE IF v.t = "list" THEN "[" \o DumpItems(v.l) \o "]"
    ELSE "{" \o DumpPairs(v.d) \o "}"

DumpItems(l) ==
    IF Len(l) = 0 THEN ""
    ELSE IF Len(l) = 1 THEN json_dumps(l[1])
    ELSE json_dumps(l[1]) \o ", " \o DumpItems(Tail(l))

DumpPairs(d) ==
    IF Len(d) = 0 THEN ""
    ELSE LET p == "\"" \o EscapeStr(d[1].k) \o "\": " \o json_dumps(d[1].v)
         IN IF Len(d) = 1 THEN p ELSE p \o ", " \o DumpPairs(Tail(d))

(***************************************************************************)
(* json.loads on a str: a scanner over the text.  A result is              *)
(* [ok, val, next]; ok = FALSE is the JSONDecodeError.  Not modelled: the  *)
(* escapes \b and \uXXXX (no input of the model contains them).            *)
(***************************************************************************)
ParseFail == [ok |-> FALSE, val |-> PNone, next |-> 0]
ParseOk(v, n) == [ok |-> TRUE, val |-> v, next |-> n]

JsonWs(c) == c \in {" ", "\t", "\n", "\r"}

RECURSIVE SkipWs(_, _)
SkipWs(s, i) ==
    IF i <= Len(s) /\ JsonWs(CharAt(s, i)) THEN SkipWs(s, i + 1) ELSE i

\* index after the run of digits that starts at i
RECURSIVE DigitsEnd(_, _)
DigitsEnd(s, i) ==
    IF i <= Len(s) /\ IsDigit(CharAt(s, i)) THEN DigitsEnd(s, i + 1) ELSE i

DigitVal(c) == CHOOSE k \in 0..9 : CharAt(DigitChars, k + 1) = c

RECURSIVE StrToNat(_)
StrToNat(s) ==
    IF Len(s) = 0 THEN 0
    ELSE 10 * StrToNat(SubSeq(s, 1, Len(s) - 1)) + DigitVal(CharAt(s, Len(s)))

\* NUMBER_RE: (-?(?:0|[1-9]\d*))(\.\d+)?([eE][-+]?\d+)?
\* a: index of the first digit
IntEnd(s, a) ==
    IF a > Len(s) \/ ~IsDigit(CharAt(s, a)) THEN a
    ELSE IF CharAt(s, a) = "0" THEN a + 1
    ELSE DigitsEnd(s, a)

FracEnd(s, intEnd) ==
    IF /\ intEnd <= Len(s)
       /\ CharAt(s, intEnd) = "."
       /\ DigitsEnd(s, intEnd + 1) > intEnd + 1
    THEN DigitsEnd(s, intEnd + 1)
    ELSE intEnd

\* c: index after the e and its sign
ExpDigitsEnd(s, c, fracEnd) ==
    IF DigitsEnd(s, c) > c THEN DigitsEnd(s, c) ELSE fracEnd

ExpEnd(s, fracEnd) ==
    IF fracEnd <= Len(s) /\ CharAt(s, fracEnd) \in {"e", "E"}
    THEN ExpDigitsEnd(s, IF fracEnd + 1 <= Len(s) /\ CharAt(s, fracEnd + 1) \in {"+", "-"}
                         THEN fracEnd + 2 ELSE fracEnd + 1, fracEnd)
    ELSE fracEnd

NumberValue(s, i, neg, a, intEnd, expEnd) ==
    IF intEnd = a THEN ParseFail
    ELSE IF expEnd = intEnd
         THEN ParseOk(PInt(IF neg THEN 0 - StrToNat(SubSeq(s, a, intEnd - 1))
                                  ELSE StrToNat(SubSeq(s, a, intEnd - 1))), intEnd)
         ELSE ParseOk(PFloat(SubSeq(s, i, expEnd - 1)), expEnd)

NumberFrom(s, i, neg, a) ==
    NumberValue(s, i, neg, a, IntEnd(s, a), ExpEnd(s, FracEnd(s, IntEnd(s, a))))

ParseNumber(s, i) ==
    IF CharAt(s, i) = "-" THEN NumberFrom(s, i, TRUE, i + 1)
    ELSE NumberFrom(s, i, FALSE, i)

Unescape(e) ==
    IF e = "n" THEN "\n"
    ELSE IF e = "r" THEN "\r"
    ELSE IF e = "t" THEN "\t"
    ELSE IF e = "f" THEN "\f"
    ELSE e

\* py_scanstring (strict): i is the index after the opening quote
RECURSIVE ScanString(_, _, _)
ScanString(s, i, acc) ==
    IF i > Len(s) THEN ParseFail
    ELSE IF CharAt(s, i) = "\"" THEN ParseOk(PStr(acc), i + 1)
    ELSE IF CharAt(s, i) = "\\"
         THEN IF i + 1 <= Len(s) /\ CharAt(s, i + 1) \in {"\"", "\\", "/", "n", "r", "t", "f"}
              THEN ScanString(s, i + 2, acc \o Unescape(CharAt(s, i + 1)))
              ELSE ParseFail
    ELSE IF CharAt(s, i) \in {"\t", "\n", "\r", "\f"} THEN ParseFail
    ELSE ScanString(s, i + 1, acc \o CharAt(s, i))

RECURSIVE ParseValue(_, _)
RECURSIVE ParseElems(_, _, _)
RECURSIVE ParseMembers(_, _, _)

\* JSONArray: i is the index after "["
ArrayFrom(s, j) ==
    IF j <= Len(s) /\ CharAt(s, j) = "]" THEN ParseOk(PList(<<>>), j + 1)
    ELSE ParseElems(s, j, <<>>)

ParseArray(s, i) == ArrayFrom(s, SkipWs(s, i))

\* after an element: j is the index of the next character that is not white space
ElemsNext(s, j, items) ==
    IF j > Len(s) THEN ParseFail
    ELSE IF CharAt(s, j) = "]" THEN ParseOk(PList(items), j + 1)
    ELSE IF CharAt(s, j) = "," THEN ParseElems(s, SkipWs(s, j + 1), items)
    ELSE ParseFail

ElemsAfter(s, r, acc) ==
    IF ~r.ok THEN ParseFail
    ELSE ElemsNext(s, SkipWs(s, r.next), Append(acc, r.val))

ParseElems(s, i, acc) == ElemsAfter(s, ParseValue(s, i), acc)

\* JSONObject: i is the index after "{"
ObjectFrom(s, j) ==
    IF j <= Len(s) /\ CharAt(s, j) = "}" THEN ParseOk(PDict(<<>>), j + 1)
    ELSE ParseMembers(s, j, <<>>)

ParseObject(s, i) == ObjectFrom(s, SkipWs(s, i))

\* after a member: j is the index of the next character that is not white space
MembersNext(s, j, d) ==
    IF j > Len(s) THEN ParseFail
    ELSE IF CharAt(s, j) = "}" THEN ParseOk(PDict(d), j + 1)
    ELSE IF CharAt(s, j) = "," THEN ParseMembers(s, SkipWs(s, j + 1), d)
    ELSE ParseFail

MemberValue(s, k, r, acc) ==
    IF ~r.ok THEN ParseFail
    ELSE MembersNext(s, SkipWs(s, r.next), DictSet(acc, k, r.val))

\* c: the index where the colon is expected
MemberColon(s, k, c, acc) ==
    IF c > Len(s) \/ CharAt(s, c) # ":" THEN ParseFail
    ELSE MemberValue(s, k, ParseValue(s, SkipWs(s, c + 1)), acc)

MemberKey(s, key, acc) ==
    IF ~key.ok THEN ParseFail
    ELSE MemberColon(s, key.val.s, SkipWs(s, key.next), acc)

ParseMembers(s, i, acc) ==
    IF i > Len(s) \/ CharAt(s, i) # "\"" THEN ParseFail
    ELSE MemberKey(s, ScanString(s, i + 1, ""), acc)

\* the constants NaN, Infinity and -Infinity
ParseConstant(s, i) ==
    IF Slice(s, i, i + 2) = "NaN" THEN ParseOk(PFloat("NaN"), i + 3)
    ELSE IF Slice(s, i, i + 7) = "Infinity" THEN ParseOk(PFloat("Infinity"), i + 8)
    ELSE IF Slice(s, i, i + 8) = "-Infinity" THEN ParseOk(PFloat("-Infinity"), i + 9)
    ELSE ParseFail

NumberOrConstant(s, i, num) == IF num.ok THEN num ELSE ParseConstant(s, i)

\* scan_once
ValueAt(s, i, c) ==
    IF c = "\"" THEN ScanString(s, i + 1, "")
    ELSE IF c = "{" THEN ParseObject(s, i + 1)
    ELSE IF c = "[" THEN ParseArray(s, i + 1)
    ELSE IF c = "n" /\ Slice(s, i, i + 3) = "null" THEN ParseOk(PNone, i + 4)
    ELSE IF c = "t" /\ Slice(s, i, i + 3) = "true" THEN ParseOk(PBool(TRUE), i + 4)
    ELSE IF c = "f" /\ Slice(s, i, i + 4) = "false" THEN ParseOk(PBool(FALSE), i + 5)
    ELSE NumberOrConstant(s, i, ParseNumber(s, i))

ParseValue(s, i) ==
    IF i > Len(s) THEN ParseFail ELSE ValueAt(s, i, CharAt(s, i))

\* the value must be followed by white space only
WholeText(s, r) ==
    IF ~r.ok THEN ParseFail
    ELSE IF SkipWs(s, r.next) # Len(s) + 1 THEN ParseFail
    ELSE r

\* JSONDecoder.decode: leading white space, one value, trailing white space
json_loads(s) == WholeText(s, ParseValue(s, SkipWs(s, 1)))

(***************************************************************************)
(* Dependency normalisation of the two handlers                            *)
(***************************************************************************)
\* generate_plan_endpoint: deps = json.dumps(deps) if isinstance(deps, list)
write_deps(deps) ==
    IF deps.t = "list" THEN PStr(json_dumps(deps)) ELSE deps

\* get_all_goals: the try block around json.loads and ", ".join; json.loads
\* of a value that is not a str, and join over a list with a non-str item,
\* raise inside the try and leave deps as last assigned
ReadParsed(deps, r) ==
    IF ~r.ok THEN deps
    ELSE IF r.val.t = "list" /\ \A i \in 1..Len(r.val.l) : r.val.l[i].t = "str"
         THEN PStr(JoinStrs(r.val.l))
    ELSE r.val

read_deps(deps) ==
    IF deps.t # "str" THEN deps ELSE ReadParsed(deps, json_loads(deps.s))

(***************************************************************************)
(* generate_plan_locally                                                   *)
(***************************************************************************)
MealWords == {"eat", "lunch", "food", "dinner", "breakfast"}

ClarifyTask ==
    [task_description |-> "Clarify and break down the goal into actionable steps.",
     dependencies |-> "None", deadline |-> "Today"]
HourTask(n) ==
    [task_description |-> "Work for " \o n \o " hour(s).",
     dependencies |-> "Clarify and break down the goal", deadline |-> "Today"]
GenericWorkTask ==
    [task_description |-> "Work on the project (time-boxed session).",
     dependencies |-> "Clarify and break down the goal", deadline |-> "Today"]
MealTask ==
    [task_description |-> "Take meal breaks.",
     dependencies |-> "None", deadline |-> "Today"]
SleepTask ==
    [task_description |-> "Sleep adequately.",
     dependencies |-> "Finish work", deadline |-> "Tonight"]
ReviewTask ==
    [task_description |-> "Review and adjust the plan.",
     dependencies |-> "Complete initial tasks", deadline |-> "Today"]

HasMealWord(text) == \E w \in MealWords : StrContains(w, text)
HasSleepWord(text) == StrContains("sleep", text)

\* sensitivity variant: the review task is added only to a plan of fewer than 2 tasks
generate_plan_locally_short(goal_text) ==
    LET text == lower(goal_text)
        match == re_search_hour(text)
        t1 == <<ClarifyTask>>
        t2 == IF match.found THEN Append(t1, HourTask(match.group1))
              ELSE Append(t1, GenericWorkTask)
        t3 == IF HasMealWord(text) THEN Append(t2, MealTask) ELSE t2
        t4 == IF HasSleepWord(text) THEN Append(t3, SleepTask) ELSE t3
        t5 == IF Len(t4) < 2 THEN Append(t4, ReviewTask) ELSE t4
    IN [tasks |-> t5]

generate_plan_locally(goal_text) ==
    LET text == lower(goal_text)
        match == re_search_hour(text)
        t1 == <<ClarifyTask>>
        t2 == IF match.found THEN Append(t1, HourTask(match.group1))
              ELSE Append(t1, GenericWorkTask)
        t3 == IF HasMealWord(text) THEN Append(t2, MealTask) ELSE t2
        t4 == IF HasSleepWord(text) THEN Append(t3, SleepTask) ELSE t3
        t5 == IF Len(t4) < 3 THEN Append(t4, ReviewTask) ELSE t4
    IN [tasks |-> t5]

(***************************************************************************)
(* Python operations of generate_plan_endpoint on loosely typed values.    *)
(* A result with err # "" is the exception the expression raises.          *)
(***************************************************************************)
\* bool(v)  (no float reaches a truth test in this model)
Truthy(v) ==
    IF v.t = "none" THEN FALSE
    ELSE IF v.t \in {"bool", "int"} THEN v.n # 0
    ELSE IF v.t = "str" THEN v.s # ""
    ELSE IF v.t = "list" THEN Len(v.l) > 0
    ELSE IF v.t = "dict" THEN Len(v.d) > 0
    ELSE TRUE

\* k in v  for a str k
PyIn(k, v) ==
    IF v.t = "dict" THEN [err |-> "", val |-> DictHas(v, k)]
    ELSE IF v.t = "list" THEN [err |-> "", val |-> \E i \in 1..Len(v.l) : v.l[i] = PStr(k)]
    ELSE IF v.t = "str" THEN [err |-> "", val |-> StrContains(k, v.s)]
    ELSE [err |-> "TypeError", val |-> FALSE]

\* v[k]  for a str k
PyGetItem(v, k) ==
    IF v.t = "dict"
    THEN IF DictHas(v, k) THEN [err |-> "", val |-> DictGet(v, k)]
         ELSE [err |-> "KeyError", val |-> PNone]
    ELSE [err |-> "TypeError", val |-> PNone]

IsStripSpace(c) == c \in {" ", "\t", "\n", "\r", "\f"}

RECURSIVE lstrip(_)
lstrip(s) ==
    IF Len(s) > 0 /\ IsStripSpace(CharAt(s, 1)) THEN lstrip(SubSeq(s, 2, Len(s))) ELSE s

RECURSIVE rstrip(_)
rstrip(s) ==
    IF Len(s) > 0 /\ IsStripSpace(CharAt(s, Len(s))) THEN rstrip(SubSeq(s, 1, Len(s) - 1)) ELSE s

\* str.strip()
strip(s) == rstrip(lstrip(s))

\* iter(v): the items a for loop visits
PyIter(v) ==
    IF v.t = "list" THEN [err |-> "", items |-> v.l]
    ELSE IF v.t = "str"
         THEN [err |-> "", items |-> [i \in 1..Len(v.s) |-> PStr(CharAt(v.s, i))]]
    ELSE IF v.t = "dict"
         THEN [err |-> "", items |-> [i \in 1..Len(v.d) |-> PStr(v.d[i].k)]]
    ELSE [err |-> "TypeError", items |-> <<>>]

\* the task list of generate_plan_locally as a Python value
TaskValue(rec) ==
    PDict(<<[k |-> "task_description", v |-> PStr(rec.task_description)],
            [k |-> "dependencies", v |-> PStr(rec.dependencies)],
            [k |-> "deadline", v |-> PStr(rec.deadline)]>>)

LocalTasksValue(goal_text) ==
    LET plan == generate_plan_locally(goal_text)
    IN PList([i \in 1..Len(plan.tasks) |-> TaskValue(plan.tasks[i])])

(***************************************************************************)
(* generate_plan_with_groq: raises ConnectionError when the client was not *)
(* initialised, else returns the parsed completion or None (the except     *)
(* branch); the completion is the input  answer.                           *)
(***************************************************************************)
generate_plan_with_groq(cl, answer) ==
    IF cl = "None"
    THEN [called |-> TRUE, raised |-> TRUE, val |-> PNone]
    ELSE [called |-> TRUE, raised |-> FALSE, val |-> answer]

NotCalled == [called |-> FALSE, raised |-> FALSE, val |-> PNone]

(***************************************************************************)
(* generate_plan_endpoint, lines 107-123: validation, the remote call, the *)
(* fallback and  tasks = plan_data["tasks"].  status 0: the handler goes   *)
(* on to the inserts; 400: the error response; 500: an exception left the  *)
(* handler.                                                                *)
(***************************************************************************)
Rejected(code, rem) ==
    [status |-> code, goal_text |-> "", remote |-> rem,
     tasks |-> PNone, used_fallback |-> FALSE]

\* lines 117-123
Orchestrate(goal_text, cl, answer) ==
    LET rem == generate_plan_with_groq(cl, answer)
        plan_data == rem.val
        has == PyIn("tasks", plan_data)
    IN IF rem.raised THEN Rejected(500, rem)
       ELSE IF ~Truthy(plan_data) \/ (has.err = "" /\ ~has.val)
            THEN [status |-> 0, goal_text |-> goal_text, remote |-> rem,
                  tasks |-> LocalTasksValue(goal_text), used_fallback |-> TRUE]
       ELSE IF has.err # "" THEN Rejected(500, rem)
       ELSE LET item == PyGetItem(plan_data, "tasks")
            IN IF item.err # "" THEN Rejected(500, rem)
               ELSE [status |-> 0, goal_text |-> goal_text, remote |-> rem,
                     tasks |-> item.val, used_fallback |-> FALSE]

\* lines 107-123
HandlePrefix(data, cl, answer) ==
    LET has == PyIn("goal", data)
    IN IF ~Truthy(data) THEN Rejected(400, NotCalled)
       ELSE IF has.err # "" THEN Rejected(500, NotCalled)
       ELSE IF ~has.val THEN Rejected(400, NotCalled)
       ELSE LET item == PyGetItem(data, "goal")
            IN IF item.err # "" \/ item.val.t # "str" THEN Rejected(500, NotCalled)
               ELSE IF strip(item.val.s) = "" THEN Rejected(400, NotCalled)
               ELSE Orchestrate(strip(item.val.s), cl, answer)

\* sensitivity variant: the serialised dependencies are written back into the task
TaskIteration_in_place(task, goal_id) ==
    LET deps == DictGet(task, "dependencies")
    IN [doc |-> [goal_id |-> goal_id,
                 task_description |-> DictGet(task, "task_description"),
                 dependencies |-> write_deps(deps),
                 deadline |-> DictGet(task, "deadline")],
        task |-> PDict(DictSet(task.d, "dependencies", write_deps(deps)))]

\* lines 133-141 for one task of the loop: the document inserted, and the
\* task object after the iteration (deps is a local name; the task is not
\* assigned to)
TaskIteration(task, goal_id) ==
    LET deps == DictGet(task, "dependencies")
    IN [doc |-> [goal_id |-> goal_id,
                 task_description |-> DictGet(task, "task_description"),
                 dependencies |-> write_deps(deps),
                 deadline |-> DictGet(task, "deadline")],
        task |-> task]

\* str(ObjectId)
ObjectIdStr(id) == "oid" \o NatToStr(id)

\* created_at.strftime("%Y-%m-%d %H:%M:%S"): the clock counts half seconds
strftime(ts) == NatToStr(ts \div 2)

(***************************************************************************)
(* Specification of the local generator: a goal text is drawn from the     *)
(* texts built from at most MaxFragments fragments, then the generator     *)
(* runs on it.                                                             *)
(***************************************************************************)
GoalFragments == {"3", "0", " ", "hour", "Hours", "gr", "eat", "Lunch", "s", "leep"}

RECURSIVE TextsUpTo(_)
TextsUpTo(n) ==
    IF n = 0 THEN {""}
    ELSE LET prev == TextsUpTo(n - 1)
         IN prev \cup { s \o f : s \in prev, f \in GoalFragments }

GoalTexts == TextsUpTo(MaxFragments) \ {""}

LocalOff == goal_in = "" /\ plan_out = [tasks |-> <<>>] /\ lpc = "off"
DepsOff == deps_in = PNone /\ deps_stored = PNone /\ deps_out = PNone /\ dpc = "off"
ServiceOff ==
    /\ client = "Groq" /\ reqs = <<>> /\ goals = {} /\ tasks_coll = <<>>
    /\ now = 0 /\ last_get = [status |-> 0, body |-> <<>>, store_failed |-> FALSE]
    /\ bodies = {} /\ completions = {}

InitLocal ==
    /\ goal_in \in GoalTexts
    /\ plan_out = [tasks |-> <<>>]
    /\ lpc = "input"
    /\ DepsOff
    /\ ServiceOff

GenerateLocal ==
    /\ lpc = "input"
    /\ plan_out' = generate_plan_locally(goal_in)
    /\ lpc' = "done"
    /\ UNCHANGED <<goal_in, dvars, svars>>

NextLocal == GenerateLocal

SpecLocal == InitLocal /\ [][NextLocal]_vars

\* C4: for a non-empty goal the local generator returns 3 or 4 tasks
C4_LocalLength ==
    lpc = "done" => Len(plan_out.tasks) >= 3 /\ Len(plan_out.tasks) <= 4

C4_Witness ==
    /\ lpc = "done"
    /\ Len(plan_out.tasks) = 4
    /\ StrContains("eat", lower(goal_in))
    /\ StrContains("sleep", lower(goal_in))

(***************************************************************************)
(* Specification of the dependency normalisation: a dependencies value is  *)
(* drawn, the write path stores it, the read path returns it.              *)
(***************************************************************************)
DepFragments == {"[", "]", "\"A\"", ", ", "null", "None", "5", "0", "{}"}
DepElems == {"A", "B", "", "a\"b", "x, y", "\\"}

RECURSIVE DepTextsUpTo(_)
DepTextsUpTo(n) ==
    IF n = 0 THEN {""}
    ELSE LET prev == DepTextsUpTo(n - 1)
         IN prev \cup { s \o f : s \in prev, f \in DepFragments }

RECURSIVE StrListsUpTo(_)
StrListsUpTo(n) ==
    IF n = 0 THEN {<<>>}
    ELSE LET prev == StrListsUpTo(n - 1)
         IN prev \cup { Append(l, PStr(e)) : l \in prev, e \in DepElems }

DepInputs ==
    { PStr(s) : s \in DepTextsUpTo(MaxDepFragments) }
    \cup { PList(l) : l \in StrListsUpTo(MaxDepList) }
    \cup { PNone, PInt(5), PList(<<PInt(5)>>), PList(<<PStr("A"), PNone>>) }

InitDeps ==
    /\ deps_in \in DepInputs
    /\ deps_stored = PNone
    /\ deps_out = PNone
    /\ dpc = "input"
    /\ LocalOff
    /\ ServiceOff

WriteDeps ==
    /\ dpc = "input"
    /\ deps_stored' = write_deps(deps_in)
    /\ dpc' = "stored"
    /\ UNCHANGED <<deps_in, deps_out, lvars, svars>>

ReadDeps ==
    /\ dpc = "stored"
    /\ deps_out' = read_deps(deps_stored)
    /\ dpc' = "read"
    /\ UNCHANGED <<deps_in, deps_stored, lvars, svars>>

NextDeps == WriteDeps \/ ReadDeps

SpecDeps == InitDeps /\ [][NextDeps]_vars

IsStrList(v) == v.t = "list" /\ \A i \in 1..Len(v.l) : v.l[i].t = "str"

\* C5: write then read turns a list of strings into its elements joined by
\* ", " and returns every string exactly as it was given
C5_RoundTrip ==
    dpc = "read" =>
        /\ IsStrList(deps_in) => deps_out = PStr(JoinStrs(deps_in.l))
        /\ deps_in.t = "str" => deps_out = deps_in

(***************************************************************************)
(* The service: request handlers over the two collections                  *)
(***************************************************************************)
Requests == DOMAIN reqs

NoResponse == [goal_id |-> "", goal_text |-> "", tasks |-> PNone, used_fallback |-> FALSE]

IdleRequest ==
    [pc |-> "idle", status |-> 0, body |-> PNone, goal_text |-> "",
     remote |-> NotCalled, generated |-> PNone, tasks |-> PNone,
     used_fallback |-> FALSE, created_at |-> 0, goal_id |-> 0, i |-> 0,
     fault |-> FALSE, response |-> NoResponse]

NoGet == [status |-> 0, body |-> <<>>, store_failed |-> FALSE]

\* request.json of the requests the model sends
GoodBody == PDict(<<[k |-> "goal", v |-> PStr(" eat 2 hours ")]>>)
Bodies ==
    { PNone,
      PDict(<<>>),
      PDict(<<[k |-> "text", v |-> PStr("x")]>>),
      PDict(<<[k |-> "goal", v |-> PStr("")]>>),
      PDict(<<[k |-> "goal", v |-> PStr(" \t ")]>>),
      PDict(<<[k |-> "goal", v |-> PNone]>>),
      PInt(5),
      PList(<<PStr("goal")>>),
      GoodBody }

\* the parsed completions the model lets the remote service answer with
\* (PNone is also the result of the except branch)
RemoteTask1 ==
    PDict(<<[k |-> "task_description", v |-> PStr("Draft")],
            [k |-> "dependencies", v |-> PList(<<PStr("A"), PStr("B")>>)],
            [k |-> "deadline", v |-> PStr("Today")]>>)
RemoteTask2 ==
    PDict(<<[k |-> "task_description", v |-> PStr("Send")],
            [k |-> "dependencies", v |-> PStr("Draft")],
            [k |-> "deadline", v |-> PStr("Friday")]>>)
RemoteTask3 == PDict(<<[k |-> "task_description", v |-> PStr("Solo")]>>)

TasksAnswer(x) == PDict(<<[k |-> "tasks", v |-> x]>>)

Completions ==
    { PNone,
      PDict(<<>>),
      PDict(<<[k |-> "plan", v |-> PList(<<RemoteTask2>>)]>>),
      TasksAnswer(PList(<<RemoteTask1, RemoteTask2>>)),
      TasksAnswer(PList(<<RemoteTask3>>)),
      TasksAnswer(PNone),
      TasksAnswer(PStr("ab")),
      TasksAnswer(PList(<<>>)),
      TasksAnswer(PList(<<PStr("step")>>)),
      PList(<<PStr("tasks")>>),
      PList(<<PInt(1)>>),
      PStr("my tasks"),
      PInt(5) }

\* the inputs of the specification with concurrent requests
StoreBodies == { PDict(<<[k |-> "goal", v |-> PStr("")]>>), GoodBody }
StoreCompletions == { PNone, TasksAnswer(PList(<<RemoteTask1, RemoteTask2>>)) }

InitStore ==
    /\ goals = {}
    /\ tasks_coll = <<>>
    /\ now = 0
    /\ last_get = NoGet
    /\ LocalOff
    /\ DepsOff

\* MaxRequests requests that may run concurrently
Init ==
    /\ client \in {"None", "Groq"}
    /\ reqs = [r \in 1..MaxRequests |-> IdleRequest]
    /\ bodies = StoreBodies
    /\ completions = StoreCompletions
    /\ InitStore

\* one request, every body and every completion
InitRequest ==
    /\ client \in {"None", "Groq"}
    /\ reqs = [r \in {1} |-> IdleRequest]
    /\ bodies = Bodies
    /\ completions = Completions
    /\ InitStore

\* POST /api/generate-plan, lines 107-129;  elapsed: whether the wall clock
\* has advanced since the last request read it
ReceiveRequest(r) ==
    /\ reqs[r].pc = "idle"
    /\ \E data \in bodies, answer \in completions, elapsed \in {0, 1} :
          LET h == HandlePrefix(data, client, answer)
          IN /\ now' = now + elapsed
             /\ reqs' = [reqs EXCEPT ![r] =
                    IF h.status = 0
                    THEN [IdleRequest EXCEPT
                             !.pc = "insert_goal", !.body = data,
                             !.goal_text = h.goal_text, !.remote = h.remote,
                             !.generated = h.tasks, !.tasks = h.tasks,
                             !.used_fallback = h.used_fallback, !.created_at = now']
                    ELSE [IdleRequest EXCEPT
                             !.pc = "done", !.status = h.status, !.body = data,
                             !.remote = h.remote]]
    /\ last_get' = NoGet
    /\ UNCHANGED <<client, goals, tasks_coll, bodies, completions, lvars, dvars>>

\* the ObjectId the driver generates for the goal document of request r:
\* distinct for distinct requests, never 0 (0 stands for "no id yet")
NewObjectId(r) == r

\* tasks_collection.insert_one(doc)
InsertTaskDoc(coll, doc) ==
    IF doc.goal_id \in DOMAIN coll
    THEN [coll EXCEPT ![doc.goal_id] = Append(@, doc)]
    ELSE coll @@ (doc.goal_id :> <<doc>>)

\* sensitivity variant: the id is taken but the goal document is not inserted before the tasks
InsertGoal_not_stored(r) ==
    /\ reqs[r].pc = "insert_goal"
    /\ reqs' = [reqs EXCEPT ![r].pc = "tasks", ![r].goal_id = NewObjectId(r), ![r].i = 1]
    /\ last_get' = NoGet
    /\ UNCHANGED <<client, goals, tasks_coll, now, bodies, completions, lvars, dvars>>

\* line 130: goals_collection.insert_one(goal_doc).inserted_id
InsertGoal(r) ==
    /\ reqs[r].pc = "insert_goal"
    /\ goals' = goals \cup {[_id |-> NewObjectId(r), goal_text |-> reqs[r].goal_text,
                               created_at |-> reqs[r].created_at]}
    /\ reqs' = [reqs EXCEPT ![r].pc = "tasks", ![r].goal_id = NewObjectId(r), ![r].i = 1]
    /\ last_get' = NoGet
    /\ UNCHANGED <<client, tasks_coll, now, bodies, completions, lvars, dvars>>

\* lines 132-152: one turn of the for loop, or its end and the response
LoopStep(r) ==
    /\ reqs[r].pc = "tasks"
    /\ LET q == reqs[r]
           it == PyIter(q.tasks)
       IN IF it.err # "" \/ (q.i <= Len(it.items) /\ it.items[q.i].t # "dict")
          THEN /\ reqs' = [reqs EXCEPT ![r].pc = "done", ![r].status = 500, ![r].i = 0]
               /\ UNCHANGED tasks_coll
          ELSE IF q.i > Len(it.items)
          THEN /\ reqs' = [reqs EXCEPT ![r].pc = "done", ![r].status = 200, ![r].i = 0,
                              ![r].response = [goal_id |-> ObjectIdStr(q.goal_id),
                                               goal_text |-> q.goal_text,
                                               tasks |-> q.tasks,
                                               used_fallback |-> q.used_fallback]]
               /\ UNCHANGED tasks_coll
          ELSE LET step == TaskIteration(it.items[q.i], q.goal_id)
               IN /\ tasks_coll' = InsertTaskDoc(tasks_coll, step.doc)
                  /\ reqs' = [reqs EXCEPT ![r].i = q.i + 1,
                                 ![r].tasks = PList([q.tasks.l EXCEPT ![q.i] = step.task])]
    /\ last_get' = NoGet
    /\ UNCHANGED <<client, goals, now, bodies, completions, lvars, dvars>>

\* an insert_one raises, or the process stops: the request ends where it is
Fault(r) ==
    /\ reqs[r].pc \in {"insert_goal", "tasks"}
    /\ reqs' = [reqs EXCEPT ![r].pc = "done", ![r].status = 500, ![r].i = 0,
                   ![r].fault = TRUE]
    /\ last_get' = NoGet
    /\ UNCHANGED <<client, goals, tasks_coll, now, bodies, completions, lvars, dvars>>

\* sensitivity variant: ascending sort
RECURSIVE SortedOrders_ascending(_)
SortedOrders_ascending(gs) ==
    IF gs = {} THEN {<<>>}
    ELSE UNION { { <<g>> \o p : p \in SortedOrders_ascending(gs \ {g}) } :
                 g \in { x \in gs : \A y \in gs : x.created_at <= y.created_at } }

\* orders in which find().sort("created_at", -1) can return the goals: a
\* document with the greatest key comes first (documents with equal keys
\* come in any order)
RECURSIVE SortedOrders(_)
SortedOrders(gs) ==
    IF gs = {} THEN {<<>>}
    ELSE UNION { { <<g>> \o p : p \in SortedOrders(gs \ {g}) } :
                 g \in { x \in gs : \A y \in gs : x.created_at >= y.created_at } }

\* tasks_collection.find({"goal_id": goal_id})
FindTasks(coll, goal_id) ==
    IF goal_id \in DOMAIN coll THEN coll[goal_id] ELSE <<>>

\* lines 164-176
FormatTask(t) ==
    [task_description |-> t.task_description,
     dependencies |-> read_deps(t.dependencies),
     deadline |-> t.deadline]

\* lines 161-182
FormatGoal(goal, coll) ==
    LET goal_tasks == FindTasks(coll, goal._id)
    IN [goal_id |-> ObjectIdStr(goal._id),
        goal_text |-> goal.goal_text,
        created_at |-> strftime(goal.created_at),
        tasks |-> [i \in 1..Len(goal_tasks) |-> FormatTask(goal_tasks[i])]]

\* GET /api/get-all-goals, sent while no POST is being handled;
\* store_fails: a find raises (the except branch)
GetAllGoals ==
    /\ \A r \in Requests : reqs[r].pc \in {"idle", "done"}
    /\ \E store_fails \in BOOLEAN, p \in SortedOrders(goals) :
          last_get' = IF store_fails
                      THEN [status |-> 500, body |-> <<>>, store_failed |-> TRUE]
                      ELSE [status |-> 200, store_failed |-> FALSE,
                            body |-> [k \in 1..Cardinality(goals) |->
                                         FormatGoal(p[k], tasks_coll)]]
    /\ UNCHANGED <<client, reqs, goals, tasks_coll, now, bodies, completions, lvars, dvars>>

Next ==
    \/ \E r \in Requests : ReceiveRequest(r)
    \/ \E r \in Requests : InsertGoal(r)
    \/ \E r \in Requests : LoopStep(r)
    \/ \E r \in Requests : Fault(r)
    \/ GetAllGoals

Spec == Init /\ [][Next]_vars

SpecRequest == InitRequest /\ [][Next]_vars

(***************************************************************************)
(* Properties of the local generator (SpecLocal)                           *)
(***************************************************************************)
\* the first place where "hour" follows a run of digits and optional
\* white space, read from the word backwards; 0 when there is none
HourWordPlaces(text) ==
    { p \in 1..Len(text) :
        /\ Slice(text, p, p + 3) = "hour"
        /\ \E j \in 1..(p - 1) :
              IsDigit(CharAt(text, j)) /\ AllSpaces(text, j + 1, p - 1) }

NumberBeforeHour(text) ==
    LET p == CHOOSE x \in HourWordPlaces(text) : \A y \in HourWordPlaces(text) : x <= y
        j == CHOOSE x \in 1..(p - 1) :
                 IsDigit(CharAt(text, x)) /\ AllSpaces(text, x + 1, p - 1)
        i == CHOOSE x \in 1..j :
                 /\ AllDigits(text, x, j)
                 /\ (x = 1 \/ ~IsDigit(CharAt(text, x - 1)))
    IN SubSeq(text, i, j)

C9_Expected(text) ==
    LET meal == \/ StrContains("eat", text) \/ StrContains("lunch", text)
                \/ StrContains("food", text) \/ StrContains("dinner", text)
                \/ StrContains("breakfast", text)
        sleep == StrContains("sleep", text)
        work == IF HourWordPlaces(text) # {}
                THEN [task_description |-> "Work for " \o NumberBeforeHour(text) \o " hour(s).",
                      dependencies |-> "Clarify and break down the goal",
                      deadline |-> "Today"]
                ELSE [task_description |-> "Work on the project (time-boxed session).",
                      dependencies |-> "Clarify and break down the goal",
                      deadline |-> "Today"]
    IN <<[task_description |-> "Clarify and break down the goal into actionable steps.",
          dependencies |-> "None", deadline |-> "Today"], work>>
       \o (IF meal THEN <<[task_description |-> "Take meal breaks.",
                           dependencies |-> "None", deadline |-> "Today"]>> ELSE <<>>)
       \o (IF sleep THEN <<[task_description |-> "Sleep adequately.",
                            dependencies |-> "Finish work", deadline |-> "Tonight"]>> ELSE <<>>)
       \o (IF ~meal /\ ~sleep
           THEN <<[task_description |-> "Review and adjust the plan.",
                   dependencies |-> "Complete initial tasks", deadline |-> "Today"]>>
           ELSE <<>>)

\* C9: the plan is the clarify task, then the work task ("Work for N
\* hour(s)." with N the digits of the first "<integer> hour" in the
\* lower-cased text, else the generic one), then the meal task iff a meal
\* keyword occurs, then the sleep task iff "sleep" occurs, then the review
\* task iff neither of the two was added
C9_PlanShape ==
    lpc = "done" => plan_out.tasks = C9_Expected(lower(goal_in))

C9_Witness ==
    /\ lpc = "done"
    /\ Len(plan_out.tasks) = 4
    /\ plan_out.tasks[2].task_description = "Work for 3 hour(s)."
    /\ plan_out.tasks[3].task_description = "Take meal breaks."
    /\ plan_out.tasks[4].deadline = "Tonight"

(***************************************************************************)
(* Properties of one request (SpecRequest)                                 *)
(***************************************************************************)
\* the body carries a goal that is a non-empty string after strip()
ValidGoal(b) ==
    /\ b.t = "dict"
    /\ DictHas(b, "goal")
    /\ DictGet(b, "goal").t = "str"
    /\ strip(DictGet(b, "goal").s) # ""

\* the body is missing, has no goal key, or its goal is empty or white space
BadBody(b) ==
    \/ b = PNone
    \/ b.t # "dict"
    \/ ~DictHas(b, "goal")
    \/ (DictGet(b, "goal").t = "str" /\ strip(DictGet(b, "goal").s) = "")

\* the request ended, had a valid goal and no store or process fault
Answered(q) == q.pc = "done" /\ ValidGoal(q.body) /\ ~q.fault

\* the remote generator signalled failure or returned no tasks key
RemoteFailed(rem) ==
    \/ rem.raised
    \/ rem.val = PNone
    \/ rem.val.t # "dict"
    \/ ~DictHas(rem.val, "tasks")

\* a list of at least one task object
UsableTaskList(x) ==
    /\ x.t = "list"
    /\ Len(x.l) > 0
    /\ \A i \in 1..Len(x.l) : x.l[i].t = "dict"

Malformed(v) ==
    \/ v = PNone
    \/ v.t # "dict"
    \/ ~DictHas(v, "tasks")
    \/ ~UsableTaskList(DictGet(v, "tasks"))

\* the goal of request q is stored, with one document per task of the list x
PersistedWith(q, x) ==
    /\ \E g \in goals : g._id = q.goal_id /\ g.goal_text = q.goal_text
    /\ x.t = "list"
    /\ Len(FindTasks(tasks_coll, q.goal_id)) = Len(x.l)

\* C1: used_fallback in the response is true exactly when the remote
\* generator signalled failure or returned no tasks key, and the returned
\* tasks are then the local plan, else the remote tasks
C1_FallbackFlag ==
    \A r \in Requests :
        LET q == reqs[r]
        IN Answered(q) =>
              /\ q.status = 200
              /\ q.response.used_fallback = RemoteFailed(q.remote)
              /\ q.response.tasks = IF RemoteFailed(q.remote)
                                    THEN LocalTasksValue(q.goal_text)
                                    ELSE DictGet(q.remote.val, "tasks")

\* C2: with the client never initialised, a request with a non-empty goal
\* falls back to the local plan, persists goal and tasks, and returns 200
\* with used_fallback = true
C2_NoClientFallsBack ==
    \A r \in Requests :
        LET q == reqs[r]
        IN client = "None" /\ Answered(q) =>
              /\ q.status = 200
              /\ q.response.used_fallback
              /\ PersistedWith(q, LocalTasksValue(q.goal_text))

\* C3: a completion without a usable task list is answered 200 with the
\* local plan and used_fallback = true, and the goal is stored with its tasks
C3_MalformedRecovered ==
    \A r \in Requests :
        LET q == reqs[r]
        IN /\ Answered(q)
           /\ q.remote.called /\ ~q.remote.raised
           /\ Malformed(q.remote.val)
           => /\ q.status = 200
              /\ q.response.used_fallback
              /\ q.response.tasks = LocalTasksValue(q.goal_text)
              /\ PersistedWith(q, LocalTasksValue(q.goal_text))

\* C7: a request whose body is missing, has no goal key or has an empty or
\* white-space goal is answered 400, without a remote call and with nothing
\* stored
C7_BadBodyRejected ==
    \A r \in Requests :
        LET q == reqs[r]
        IN q.pc = "done" /\ BadBody(q.body) =>
              /\ q.status = 400
              /\ ~q.remote.called
              /\ q.goal_id = 0
              /\ goals = {}
              /\ tasks_coll = <<>>

\* whether the deps value of item i of a task list is a list
HasListDeps(x, i) == x.l[i].t = "dict" /\ DictGet(x.l[i], "dependencies").t = "list"

\* C10: a 200 response returns the generator's tasks untouched (a list of
\* dependencies is still a list), one document per returned task is stored
\* with the returned goal_id, and a stored list of dependencies is its
\* serialised string
C10_ResponseUnaltered ==
    \A r \in Requests :
        LET q == reqs[r]
            docs == FindTasks(tasks_coll, q.goal_id)
        IN q.pc = "done" /\ q.status = 200 =>
              /\ q.response.tasks = q.generated
              /\ q.response.goal_id = ObjectIdStr(q.goal_id)
              /\ Len(docs) = Len(PyIter(q.generated).items)
              /\ \A i \in 1..Len(docs) :
                    /\ ObjectIdStr(docs[i].goal_id) = q.response.goal_id
                    /\ docs[i].task_description
                          = DictGet(q.response.tasks.l[i], "task_description")
                    /\ HasListDeps(q.generated, i) =>
                          /\ DictGet(q.response.tasks.l[i], "dependencies").t = "list"
                          /\ docs[i].dependencies.t = "str"
                          /\ docs[i].dependencies.s
                                = json_dumps(DictGet(q.generated.l[i], "dependencies"))

C10_Witness ==
    \E r \in Requests :
        /\ reqs[r].pc = "done" /\ reqs[r].status = 200
        /\ ~reqs[r].response.used_fallback
        /\ Len(FindTasks(tasks_coll, reqs[r].goal_id)) = 2
        /\ HasListDeps(reqs[r].response.tasks, 1)
        /\ FindTasks(tasks_coll, reqs[r].goal_id)[1].dependencies = PStr("[\"A\", \"B\"]")

(***************************************************************************)
(* Properties of the collections under concurrent requests (Spec)          *)
(***************************************************************************)
GoalIds == { g._id : g \in goals }

\* the descriptions of the first k tasks request q generated
FirstDescriptions(q, k) ==
    [i \in 1..k |-> DictGet(PyIter(q.generated).items[i], "task_description")]

StoredDescriptions(q) ==
    LET docs == FindTasks(tasks_coll, q.goal_id)
    IN [i \in 1..Len(docs) |-> docs[i].task_description]

\* every task document refers to a stored goal, inserted by the request that
\* inserted the task; stored goals stay as inserted; the tasks stored for a
\* request are the first ones it generated, in order
TasksFollowGoals ==
    /\ \A id \in DOMAIN tasks_coll : \A i \in 1..Len(tasks_coll[id]) :
          /\ tasks_coll[id][i].goal_id \in GoalIds
          /\ \E r \in Requests : reqs[r].goal_id = tasks_coll[id][i].goal_id
    /\ Cardinality(goals) = Cardinality({ r \in Requests : reqs[r].goal_id # 0 })
    /\ \A r \in Requests :
          LET q == reqs[r]
          IN q.goal_id # 0 =>
                /\ [_id |-> q.goal_id, goal_text |-> q.goal_text,
                    created_at |-> q.created_at] \in goals
                /\ Len(StoredDescriptions(q)) <= Len(PyIter(q.generated).items)
                /\ StoredDescriptions(q) = FirstDescriptions(q, Len(StoredDescriptions(q)))

\* a request ended by a fault or an exception
Interrupted(q) == q.pc = "done" /\ q.status = 500

\* C6 as stated: task documents refer to stored goals, and an interrupted
\* request leaves its goal with none or a strict prefix of its tasks
C6_Original ==
    /\ TasksFollowGoals
    /\ \A r \in Requests :
          Interrupted(reqs[r]) /\ reqs[r].goal_id # 0 =>
              Len(StoredDescriptions(reqs[r])) < Len(PyIter(reqs[r].generated).items)

\* C6 (amended): in every state each task document's goal_id is the id of a
\* stored goal, inserted earlier by the same request and never changed or
\* removed; an interrupted request leaves its goal with none, some or all of
\* its tasks in generator order, never a task without its goal
C6_TasksFollowGoals ==
    /\ TasksFollowGoals
    /\ \A r \in Requests :
          reqs[r].goal_id = 0 => FindTasks(tasks_coll, NewObjectId(r)) = <<>>

C6_Witness ==
    /\ \E r \in Requests :
          /\ Interrupted(reqs[r])
          /\ reqs[r].goal_id # 0
          /\ Len(FindTasks(tasks_coll, reqs[r].goal_id)) = 1
    /\ \E r \in Requests :
          /\ reqs[r].pc = "tasks"
          /\ Len(FindTasks(tasks_coll, reqs[r].goal_id)) = 2

\* the stored goal an entry of the GET response stands for
GoalOfEntry(e) == CHOOSE g \in goals : ObjectIdStr(g._id) = e.goal_id

GetResponseComplete ==
    LET body == last_get.body
    IN /\ Len(body) = Cardinality(goals)
       /\ \A g \in goals :
             Cardinality({ k \in 1..Len(body) : body[k].goal_id = ObjectIdStr(g._id) }) = 1
       /\ \A a, b \in 1..Len(body) :
             a < b => GoalOfEntry(body[a]).created_at >= GoalOfEntry(body[b]).created_at
       /\ \A k \in 1..Len(body) :
             LET docs == FindTasks(tasks_coll, GoalOfEntry(body[k])._id)
             IN /\ body[k].goal_text = GoalOfEntry(body[k]).goal_text
                /\ Len(body[k].tasks) = Len(docs)
                /\ \A i \in 1..Len(docs) :
                      /\ docs[i].goal_id = GoalOfEntry(body[k])._id
                      /\ body[k].tasks[i].task_description = docs[i].task_description
                      /\ body[k].tasks[i].deadline = docs[i].deadline

\* C8: a GET between requests answers 200 (unless the store read fails)
\* with every stored goal exactly once, newest first by created_at, each
\* with exactly the tasks stored under its id, and changes no collection
C8_GetAllGoals ==
    /\ [](last_get.status # 0 =>
            /\ last_get.store_failed => last_get.status = 500
            /\ ~last_get.store_failed => last_get.status = 200 /\ GetResponseComplete)
    /\ [][last_get'.status # 0 => UNCHANGED <<goals, tasks_coll, reqs>>]_vars

C8_Witness ==
    /\ last_get.status = 200
    /\ Len(last_get.body) = 2
    /\ GoalOfEntry(last_get.body[1]).created_at > GoalOfEntry(last_get.body[2]).created_at
    /\ Len(last_get.body[1].tasks) = 3
    /\ Len(last_get.body[2].tasks) = 2
====
